---- MODULE Spec2Model ----
(***************************************************************************)
(* Model of the two Ansible modules of the illumio collection:             *)
(*   plugins/modules/assign_managed_labels.py  (label assignment)          *)
(*   plugins/modules/create_label.py           (label creation)            *)
(* One behaviour is one invocation of one of the two modules against a     *)
(* platform (PCE) whose labels and managed workloads are part of the       *)
(* state.  Every HTTP request that reaches the platform is logged.         *)
(***************************************************************************)
EXTENDS Integers, Sequences, FiniteSets, TLC

VARIABLES
    prog,            \* which module is invoked: "assign" or "create"
    check_mode,      \* module.check_mode
    pc,              \* position of the run
    opened,          \* TRUE once the CSV file has been opened
    gets,            \* GET requests received by the platform, in order
    posts,           \* POST (create label) requests received, in order
    puts,            \* PUT (update workload) requests received, in order
    output,          \* result objects emitted by exit_json / fail_json
    pceLabels,       \* platform: the label objects {key, value, href}
    pceWorkloads,    \* platform: managed workloads {href, public_ip, interfaces}
    wlLabels,        \* platform: the label list attached to each workload
    labels_details,  \* assign: in-memory catalog type -> (value -> href)
    hrefs,           \* assign: locals role_href, app_href, env_href, loc_href
    rowsRead,        \* assign: the CSV rows read so far (as DictReader dicts)
    list,            \* result accumulator of the running module
    params,          \* create: l_name, l_type, l_path
    csvFile,         \* create: header and lines of the label CSV
    cursor,          \* create: number of CSV lines consumed
    run              \* create: 1 for the first invocation, 2 for the repeat

vars == <<prog, check_mode, pc, opened, gets, posts, puts, output, pceLabels,
          pceWorkloads, wlLabels, labels_details, hrefs, rowsRead, list,
          params, csvFile, cursor, run>>

-----------------------------------------------------------------------------
(* Bounds *)

MaxRows == 2      \* rows of the workload CSV
MaxCsv == 2       \* lines of the label CSV
MaxRuns == 2      \* successive invocations of the creation module

-----------------------------------------------------------------------------
(* Python values *)

\* None, as csv.DictReader stores it for a field a short row does not have
\* and as AnsibleModule stores it for a parameter that was not supplied.
None == "<None>"

\* JSON scalars: a str and an int never compare equal.
JStr(s) == [str |-> s]
JInt(n) == [int |-> n]

\* a local variable that was never assigned
Unbound == [unbound |-> TRUE]

\* Python truth value of a str or int
Truthy(j) == IF "str" \in DOMAIN j THEN j.str # "" ELSE j.int # 0

\* Python truth value of a str-or-None module parameter
TruthyParam(p) == p # None /\ p # ""

EmptyDict == [v \in {} |-> 0]

RECURSIVE IndexOf(_, _, _)
IndexOf(seq, x, i) ==
    IF i > Len(seq) THEN 0
    ELSE IF seq[i] = x THEN i
    ELSE IndexOf(seq, x, i + 1)

Range(seq) == {seq[i] : i \in 1..Len(seq)}

\* csv.DictReader: one dict per line, keyed by the header; a line shorter
\* than the header leaves the remaining keys at restval = None.
DictReader(fieldnames, line) ==
    [k \in Range(fieldnames) |->
        LET i == IndexOf(fieldnames, k, 1)
        IN  IF i <= Len(line) THEN line[i] ELSE None]

-----------------------------------------------------------------------------
(* The platform (PCE) *)

LabelTypes == <<"role", "app", "env", "loc">>

TypeSet == Range(LabelTypes)

LabelHref(key, value) == "/orgs/1/labels/" \o key \o "/" \o value

LabelObject(key, value) ==
    [key |-> key, value |-> value, href |-> LabelHref(key, value)]

PceHasLabel(labels, key, value) ==
    \E l \in labels : l.key = key /\ l.value = value

\* POST .../labels: the platform stores the label unless it already has one
\* of that key and value (or the value is JSON null), and answers with a JSON body: the created object
\* ("{..."), or an error array ("[...").  The body is a sequence of bytes.
PcePostLabel(labels, key, value) ==
    IF value = None \/ PceHasLabel(labels, key, value)
    THEN [labels |-> labels, content |-> <<91, 123, 34>>]
    ELSE [labels |-> labels \cup {LabelObject(key, value)},
          content |-> <<123, 34, 104>>]

-----------------------------------------------------------------------------
(* assign_managed_labels.py *)

WorkloadHeader == <<"ip", "role", "app", "env", "loc">>

\* display_labels: the catalog built from the body of GET .../labels.
\* Four `if label_data['key'] == ...` tests fill the four sub-dicts.
display_labels(labels) ==
    [t \in TypeSet |->
        [v \in {l.value : l \in {x \in labels : x.key = t}} |->
            JStr((CHOOSE l \in labels : l.key = t /\ l.value = v).href)]]

\* create_label(type, name)[0]: the POST, then the first byte of the
\* response body.  An empty body has no first byte (IndexError).
create_label(s, type, name, rowNo) ==
    LET resp == PcePostLabel(s.pceLabels, type, name)
        sent == [s EXCEPT !.pceLabels = resp.labels,
                          !.posts = Append(@, [key |-> type, value |-> name,
                                               row |-> rowNo, run |-> 1,
                                               existed |-> PceHasLabel(s.pceLabels, type, name)])]
    IN  IF Len(resp.content) = 0
        THEN [sent EXCEPT !.crashed = TRUE]
        ELSE [sent EXCEPT !.href = JInt(resp.content[1])]

\* ResolveLabel with the line `labels_details[type][value] = href` left out.
ResolveLabel_NoInsert(s, type, value, rowNo, fp) ==
    IF s.crashed THEN s
    ELSE IF value = None THEN s
    ELSE IF value \in DOMAIN s.labels_details[type]
    THEN [s EXCEPT !.hrefs[type] = s.labels_details[type][value]]
    ELSE IF fp = "post" THEN [s EXCEPT !.crashed = TRUE]
    ELSE LET c == create_label(s, type, value, rowNo)
         IN  IF c.crashed THEN c
             ELSE [c EXCEPT !.hrefs[type] = c.href]

\* One of the four blocks "if <field> is not None: ..." of the row loop.
\* fp = "post" makes the POST raise (the request never reaches the platform).
ResolveLabel(s, type, value, rowNo, fp) ==
    IF s.crashed THEN s
    ELSE IF value = None THEN s
    ELSE IF value \in DOMAIN s.labels_details[type]
    THEN [s EXCEPT !.hrefs[type] = s.labels_details[type][value]]
    ELSE IF fp = "post" THEN [s EXCEPT !.crashed = TRUE]
    ELSE LET c == create_label(s, type, value, rowNo)
         IN  IF c.crashed THEN c
             ELSE [c EXCEPT !.labels_details[type] = (value :> c.href) @@ @,
                            !.hrefs[type] = c.href]

ResolveLabels(s, rows, rowNo, fp) ==
    LET s1 == ResolveLabel(s, "role", rows["role"], rowNo, fp)
        s2 == ResolveLabel(s1, "app", rows["app"], rowNo, fp)
        s3 == ResolveLabel(s2, "env", rows["env"], rowNo, fp)
    IN  ResolveLabel(s3, "loc", rows["loc"], rowNo, fp)

\* `if x_href: label.append({"href": x_href})` for the four locals in order
RECURSIVE BuildLabel(_, _)
BuildLabel(h, i) ==
    IF i > Len(LabelTypes) THEN <<>>
    ELSE (IF Truthy(h[LabelTypes[i]]) THEN <<[href |-> h[LabelTypes[i]]]>> ELSE <<>>)
         \o BuildLabel(h, i + 1)

\* The body of the `if` of the interface loop: build the payload, PUT it,
\* record the IP.  Reading a local that no row has assigned yet raises
\* UnboundLocalError; fp = "put" makes the PUT raise.
UpdateWorkload(s, values, wi, public_ip, rowNo, fp) ==
    LET checked == [s EXCEPT !.check = 1]
    IN  IF \E t \in TypeSet : s.hrefs[t] = Unbound
        THEN [checked EXCEPT !.crashed = TRUE]
        ELSE IF fp = "put" THEN [checked EXCEPT !.crashed = TRUE]
        ELSE LET label == BuildLabel(s.hrefs, 1)
             IN  [checked EXCEPT
                    !.puts = Append(@, [uri |-> values.href, wl |-> wi,
                                        labels |-> label, row |-> rowNo,
                                        ip |-> public_ip]),
                    !.wlLabels[wi] = label,
                    !.assigned = Append(@, public_ip)]

\* `for data in values['interfaces']`
RECURSIVE ScanInterfaces(_, _, _, _, _, _, _)
ScanInterfaces(s, values, wi, k, public_ip, rowNo, fp) ==
    IF s.crashed \/ k > Len(values.interfaces) THEN s
    ELSE LET data == values.interfaces[k]
             s1 == IF data.address = public_ip \/ values.public_ip = public_ip
                   THEN UpdateWorkload(s, values, wi, public_ip, rowNo, fp)
                   ELSE s
         IN  ScanInterfaces(s1, values, wi, k + 1, public_ip, rowNo, fp)

\* `for values in obj`
RECURSIVE ScanWorkloads(_, _, _, _, _, _)
ScanWorkloads(s, obj, wi, public_ip, rowNo, fp) ==
    IF s.crashed \/ wi > Len(obj) THEN s
    ELSE ScanWorkloads(ScanInterfaces(s, obj[wi], wi, 1, public_ip, rowNo, fp),
                       obj, wi + 1, public_ip, rowNo, fp)

\* ProcessRow with the trailing `if check==0:` block left out.
ProcessRow_NoMissRecord(s, rows, obj, rowNo, fp) ==
    LET public_ip == rows["ip"]
        fetched == [s EXCEPT !.gets = Append(@, "workloads"), !.check = 0]
        resolved == ResolveLabels(fetched, rows, rowNo, fp)
        scanned == ScanWorkloads(resolved, obj, 1, public_ip, rowNo, fp)
    IN  IF fp = "get" THEN [s EXCEPT !.crashed = TRUE]
        ELSE scanned

\* One iteration of `for rows in workload_details`.
ProcessRow(s, rows, obj, rowNo, fp) ==
    LET public_ip == rows["ip"]
        fetched == [s EXCEPT !.gets = Append(@, "workloads"), !.check = 0]
        resolved == ResolveLabels(fetched, rows, rowNo, fp)
        scanned == ScanWorkloads(resolved, obj, 1, public_ip, rowNo, fp)
    IN  IF fp = "get" THEN [s EXCEPT !.crashed = TRUE]
        ELSE IF scanned.crashed THEN scanned
        ELSE IF scanned.check = 0
        THEN [scanned EXCEPT !.not_assigned = Append(@, public_ip)]
        ELSE scanned

-----------------------------------------------------------------------------
(* Inputs of the assignment module *)

IpA == "192.168.1.113"
IpB == "19.16.1.111"
IpC == "10.0.0.5"

\* Lines of the workload CSV (columns ip,role,app,env,loc).  A short line
\* is padded with None by DictReader.
WorkloadCsvLines ==
    { <<IpA, "web", "billing", "prod", "us-east">>,
      <<IpA, "", "billing", "prod", "us-east">>,
      <<IpA, "web", "billing", "", "us-east">>,
      <<IpA, "web", "billing", "prod", "">>,
      <<IpA, "", "", "", "">>,
      <<IpA, "web", "billing", "prod">>,
      <<IpA, "web">>,
      <<IpA>>,
      <<IpB, "web", "billing", "prod", "us-east">>,
      <<IpB, "", "billing", "", "us-east">>,
      <<IpB, "web", "billing">> }

\* Managed workloads as the platform returns them, without their href.
WorkloadShapes ==
    { [public_ip |-> IpA, interfaces |-> <<>>],
      [public_ip |-> IpA, interfaces |-> <<[address |-> IpA], [address |-> IpC]>>],
      [public_ip |-> IpC, interfaces |-> <<[address |-> IpC], [address |-> IpB]>>],
      [public_ip |-> IpC, interfaces |-> <<[address |-> IpC]>>] }

WorkloadHref(i) == "/orgs/1/workloads/" \o ToString(i)

WithHrefs(shapes) ==
    [i \in 1..Len(shapes) |->
        [href |-> WorkloadHref(i), public_ip |-> shapes[i].public_ip,
         interfaces |-> shapes[i].interfaces]]

Inventories ==
    {WithHrefs(<<>>)} \cup {WithHrefs(<<w>>) : w \in WorkloadShapes}
        \cup {WithHrefs(<<w1, w2>>) : w1 \in WorkloadShapes, w2 \in WorkloadShapes}

\* Label sets the platform may hold when a run starts.
InitialLabels ==
    { {},
      {LabelObject("role", "web"), LabelObject("app", "billing"),
       LabelObject("env", "prod"), LabelObject("loc", "us-east"),
       LabelObject("app", "x")} }

\* Which kind of HTTP request raises while a row is processed.
FailPoints == {"none", "get", "post", "put"}

-----------------------------------------------------------------------------
(* Actions of the assignment module *)

\* `if module.check_mode: module.exit_json(**result)` with result = dict()
AssignCheckMode ==
    /\ prog = "assign" /\ pc = "start" /\ check_mode
    /\ output' = Append(output, [kind |-> "exit", body |-> EmptyDict])
    /\ pc' = "exited"
    /\ UNCHANGED <<prog, check_mode, opened, gets, posts, puts, pceLabels,
                   pceWorkloads, wlLabels, labels_details, hrefs, rowsRead,
                   list, params, csvFile, cursor, run>>

\* AssignDisplayLabels reached without the check-mode test before it.
AssignDisplayLabels_Unguarded ==
    /\ prog = "assign" /\ pc = "start"
    /\ gets' = Append(gets, "labels")
    /\ labels_details' = display_labels(pceLabels)
    /\ pc' = "fetched"
    /\ UNCHANGED <<prog, check_mode, opened, posts, puts, output, pceLabels,
                   pceWorkloads, wlLabels, hrefs, rowsRead, list, params,
                   csvFile, cursor, run>>

\* `labels_details = display_labels()`.  A body of exactly 500 bytes takes
\* the async_api branch, whose result has no `content` (AttributeError).
AssignDisplayLabels ==
    /\ prog = "assign" /\ pc = "start" /\ ~check_mode
    /\ \E outcome \in {"ok", "raise", "len500"} :
        /\ gets' = IF outcome = "raise" THEN gets ELSE Append(gets, "labels")
        /\ labels_details' = IF outcome = "ok" THEN display_labels(pceLabels)
                             ELSE labels_details
        /\ pc' = IF outcome = "ok" THEN "fetched" ELSE "crashed"
    /\ UNCHANGED <<prog, check_mode, opened, posts, puts, output, pceLabels,
                   pceWorkloads, wlLabels, hrefs, rowsRead, list, params,
                   csvFile, cursor, run>>

\* `with open(workload, 'r') as details`
AssignOpenCsv ==
    /\ prog = "assign" /\ pc = "fetched"
    /\ \E readable \in BOOLEAN :
        /\ opened' = readable
        /\ pc' = IF readable THEN "rows" ELSE "crashed"
    /\ UNCHANGED <<prog, check_mode, gets, posts, puts, output, pceLabels,
                   pceWorkloads, wlLabels, labels_details, hrefs, rowsRead,
                   list, params, csvFile, cursor, run>>

\* One iteration of the row loop, for the next line of the CSV.
AssignRow ==
    /\ prog = "assign" /\ pc = "rows" /\ Len(rowsRead) < MaxRows
    /\ \E line \in WorkloadCsvLines, fp \in FailPoints :
        LET rows == DictReader(WorkloadHeader, line)
            s0 == [labels_details |-> labels_details, hrefs |-> hrefs,
                   gets |-> gets, posts |-> posts, puts |-> puts,
                   pceLabels |-> pceLabels, wlLabels |-> wlLabels,
                   assigned |-> list.assigned,
                   not_assigned |-> list.not_assigned,
                   check |-> 0, href |-> Unbound, crashed |-> FALSE]
            s == ProcessRow(s0, rows, pceWorkloads, Len(rowsRead) + 1, fp)
        IN  /\ rowsRead' = Append(rowsRead, rows)
            /\ labels_details' = s.labels_details
            /\ hrefs' = s.hrefs
            /\ gets' = s.gets
            /\ posts' = s.posts
            /\ puts' = s.puts
            /\ pceLabels' = s.pceLabels
            /\ wlLabels' = s.wlLabels
            /\ list' = [assigned |-> s.assigned, not_assigned |-> s.not_assigned]
            /\ pc' = IF s.crashed THEN "crashed" ELSE "rows"
    /\ UNCHANGED <<prog, check_mode, opened, output, pceWorkloads, params,
                   csvFile, cursor, run>>

\* End of the CSV: `module.exit_json(changed=True, labels_assigned=...,
\* not_assigned=...)`
AssignExit ==
    /\ prog = "assign" /\ pc = "rows"
    /\ output' = Append(output,
                    [kind |-> "exit",
                     body |-> [changed |-> TRUE,
                               labels_assigned |-> list.assigned,
                               not_assigned |-> list.not_assigned]])
    /\ pc' = "exited"
    /\ UNCHANGED <<prog, check_mode, opened, gets, posts, puts, pceLabels,
                   pceWorkloads, wlLabels, labels_details, hrefs, rowsRead,
                   list, params, csvFile, cursor, run>>

-----------------------------------------------------------------------------
(* create_label.py *)

\* `key == 'loc' or key == 'env' or key == 'role' or key == 'app'`
IsLabelType(key) == key = "loc" \/ key = "env" \/ key = "role" \/ key = "app"

\* "Invalid type:" + key + ". Type should be either env,app,loc,role"
InvalidTypeMessage(key) ==
    "Invalid type:" \o key \o ". Type should be either env,app,loc,role"

\* key + " : " + value
SuccessMessage(key, value) == key \o " : " \o value

\* requests.post(API, ..., data=json.dumps({"key": key, "value": value}))
\* as seen by the platform
PostLabel(c, key, value, rowNo) ==
    [c EXCEPT !.pceLabels = PcePostLabel(c.pceLabels, key, value).labels,
              !.posts = Append(@, [key |-> key, value |-> value,
                                   row |-> rowNo, run |-> c.run,
                                   existed |-> PceHasLabel(c.pceLabels, key, value)])]

\* CreateRowStep ending the run on an invalid type, as single-record mode does.
CreateRowStep_StopOnInvalid(c, rows, rowNo, netOk) ==
    IF "type" \notin DOMAIN rows \/ "name" \notin DOMAIN rows
    THEN [c EXCEPT !.raised = TRUE]
    ELSE LET key == rows["type"]
             value == rows["name"]
         IN  IF IsLabelType(key)
             THEN IF ~netOk THEN [c EXCEPT !.raised = TRUE]
                  ELSE LET sent == PostLabel(c, key, value, rowNo)
                       IN  IF value = None
                           THEN [sent EXCEPT !.raised = TRUE]
                           ELSE [sent EXCEPT !.list.success =
                                        Append(@, SuccessMessage(key, value))]
             ELSE [c EXCEPT !.raised = TRUE]

\* CreateRowStep formatting its messages with "%s", which accepts None.
CreateRowStep_FormatNone(c, rows, rowNo, netOk) ==
    IF "type" \notin DOMAIN rows \/ "name" \notin DOMAIN rows
    THEN [c EXCEPT !.raised = TRUE]
    ELSE LET key == rows["type"]
             value == rows["name"]
         IN  IF IsLabelType(key)
             THEN IF ~netOk THEN [c EXCEPT !.raised = TRUE]
                  ELSE [PostLabel(c, key, value, rowNo) EXCEPT !.list.success =
                            Append(@, SuccessMessage(key, value))]
             ELSE [c EXCEPT !.list.error = Append(@, InvalidTypeMessage(key))]

\* One iteration of `for rows in label_value` inside the try block.
\* raised = TRUE when the iteration ends in an exception: a KeyError for a
\* column the header lacks, a TypeError for str + None, or the POST raising
\* (netOk = FALSE).
CreateRowStep(c, rows, rowNo, netOk) ==
    IF "type" \notin DOMAIN rows \/ "name" \notin DOMAIN rows
    THEN [c EXCEPT !.raised = TRUE]
    ELSE LET key == rows["type"]
             value == rows["name"]
         IN  IF IsLabelType(key)
             THEN IF ~netOk THEN [c EXCEPT !.raised = TRUE]
                  ELSE LET sent == PostLabel(c, key, value, rowNo)
                       IN  IF value = None
                           THEN [sent EXCEPT !.raised = TRUE]
                           ELSE [sent EXCEPT !.list.success =
                                        Append(@, SuccessMessage(key, value))]
             ELSE IF key = None
                  THEN [c EXCEPT !.raised = TRUE]
                  ELSE [c EXCEPT !.list.error = Append(@, InvalidTypeMessage(key))]

\* The `elif l_type and l_name:` branch with a valid type: the success entry
\* is appended before the POST is sent.
CreateSingleStep(c, l_type, l_name, netOk) ==
    LET noted == [c EXCEPT !.list.success = Append(@, SuccessMessage(l_type, l_name))]
    IN  IF ~netOk THEN [noted EXCEPT !.raised = TRUE]
        ELSE PostLabel(noted, l_type, l_name, 0)

\* module.exit_json(error=list["error"], success=list["success"])
ResultJson(l) == [kind |-> "exit", body |-> [error |-> l.error, success |-> l.success]]

\* except Exception: module.fail_json(msg="Error!!")
ErrorJson == [kind |-> "fail", body |-> [msg |-> "Error!!", failed |-> TRUE]]

\* The invalid-type branch falling through to the final exit_json.
InvalidTypeJson_FallThrough(l_type) ==
    [kind |-> "exit", body |-> [error |-> <<>>, success |-> <<>>]]

\* module.exit_json(msg="Invalid type value.", failed=l_type)
InvalidTypeJson(l_type) ==
    [kind |-> "exit", body |-> [msg |-> "Invalid type value.", failed |-> l_type]]

\* module.exit_json(msg="Parameter mismatch.")
MismatchJson == [kind |-> "exit", body |-> [msg |-> "Parameter mismatch."]]

-----------------------------------------------------------------------------
(* Inputs of the creation module *)

LabelTypeValues == {"env", "app", "loc", "role", "ap", "App"}

LabelNames == {"x"}

LabelHeaders == {<<"type", "name">>, <<"name", "type">>, <<"type">>}

\* The lines a label CSV with this header may hold: full lines, and lines
\* that stop after the first column.
LabelLines(header) ==
    LET full == {[type |-> t, name |-> n] : t \in LabelTypeValues, n \in LabelNames}
        whole == {[i \in 1..Len(header) |-> r[header[i]]] : r \in full}
    IN  whole \cup {SubSeq(l, 1, 1) : l \in whole}

LabelCsvFiles ==
    UNION {{[header |-> h, lines |-> ls] :
                ls \in UNION {[1..n -> LabelLines(h)] : n \in 0..MaxCsv}} :
           h \in LabelHeaders}

ParamSets ==
    {[l_name |-> None, l_type |-> None, l_path |-> "labels.csv"]}
        \cup {[l_name |-> n, l_type |-> t, l_path |-> None] :
                n \in {"test_application", "x", None},
                t \in LabelTypeValues \cup {None, ""}}

-----------------------------------------------------------------------------
(* Actions of the creation module *)

CreateLocals == [list |-> list, pceLabels |-> pceLabels, posts |-> posts,
                 run |-> run, raised |-> FALSE]

\* `if module.check_mode: module.exit_json(**result)` with result = dict()
CreateCheckMode ==
    /\ prog = "create" /\ pc = "start" /\ check_mode
    /\ output' = Append(output, [kind |-> "exit", body |-> EmptyDict])
    /\ pc' = "exited"
    /\ UNCHANGED <<prog, check_mode, opened, gets, posts, puts, pceLabels,
                   pceWorkloads, wlLabels, labels_details, hrefs, rowsRead,
                   list, params, csvFile, cursor, run>>

\* `if l_path: with open(l_path, 'r') as data_file`; an unreadable file
\* raises inside the try block.
CreateOpenCsv ==
    /\ prog = "create" /\ pc = "start" /\ ~check_mode
    /\ TruthyParam(params.l_path)
    /\ \E readable \in BOOLEAN :
        /\ opened' = readable
        /\ pc' = IF readable THEN "rows" ELSE "failed"
        /\ output' = IF readable THEN output ELSE Append(output, ErrorJson)
    /\ UNCHANGED <<prog, check_mode, gets, posts, puts, pceLabels,
                   pceWorkloads, wlLabels, labels_details, hrefs, rowsRead,
                   list, params, csvFile, cursor, run>>

\* One iteration of the CSV loop; an exception ends the run in fail_json.
CreateRow ==
    /\ prog = "create" /\ pc = "rows" /\ cursor < Len(csvFile.lines)
    /\ \E netOk \in BOOLEAN :
        LET rows == DictReader(csvFile.header, csvFile.lines[cursor + 1])
            c == CreateRowStep(CreateLocals, rows, cursor + 1, netOk)
        IN  /\ list' = c.list
            /\ pceLabels' = c.pceLabels
            /\ posts' = c.posts
            /\ cursor' = cursor + 1
            /\ pc' = IF c.raised THEN "failed" ELSE "rows"
            /\ output' = IF c.raised THEN Append(output, ErrorJson) ELSE output
    /\ UNCHANGED <<prog, check_mode, opened, gets, puts, pceWorkloads,
                   wlLabels, labels_details, hrefs, rowsRead, params, csvFile,
                   run>>

\* End of the CSV: module.exit_json(error=..., success=...)
CreateExit ==
    /\ prog = "create" /\ pc = "rows" /\ cursor = Len(csvFile.lines)
    /\ output' = Append(output, ResultJson(list))
    /\ pc' = "exited"
    /\ UNCHANGED <<prog, check_mode, opened, gets, posts, puts, pceLabels,
                   pceWorkloads, wlLabels, labels_details, hrefs, rowsRead,
                   list, params, csvFile, cursor, run>>

\* Single-record mode: `elif l_type and l_name:`
CreateSingle ==
    /\ prog = "create" /\ pc = "start" /\ ~check_mode
    /\ ~TruthyParam(params.l_path)
    /\ TruthyParam(params.l_type) /\ TruthyParam(params.l_name)
    /\ \E netOk \in BOOLEAN :
        IF IsLabelType(params.l_type)
        THEN LET c == CreateSingleStep(CreateLocals, params.l_type, params.l_name, netOk)
             IN  /\ list' = c.list
                 /\ pceLabels' = c.pceLabels
                 /\ posts' = c.posts
                 /\ pc' = IF c.raised THEN "failed" ELSE "exited"
                 /\ output' = Append(output, IF c.raised THEN ErrorJson
                                             ELSE ResultJson(c.list))
        ELSE /\ output' = Append(output, InvalidTypeJson(params.l_type))
             /\ pc' = "exited"
             /\ UNCHANGED <<list, pceLabels, posts>>
    /\ UNCHANGED <<prog, check_mode, opened, gets, puts, pceWorkloads,
                   wlLabels, labels_details, hrefs, rowsRead, params, csvFile,
                   cursor, run>>

\* `else: module.exit_json(msg="Parameter mismatch.")`
CreateMismatch ==
    /\ prog = "create" /\ pc = "start" /\ ~check_mode
    /\ ~TruthyParam(params.l_path)
    /\ ~(TruthyParam(params.l_type) /\ TruthyParam(params.l_name))
    /\ output' = Append(output, MismatchJson)
    /\ pc' = "exited"
    /\ UNCHANGED <<prog, check_mode, opened, gets, posts, puts, pceLabels,
                   pceWorkloads, wlLabels, labels_details, hrefs, rowsRead,
                   list, params, csvFile, cursor, run>>

\* The playbook task is run again with the same parameters and the same
\* CSV against the platform as the previous run left it: main() starts a
\* fresh process.
CreateRerun ==
    /\ prog = "create" /\ pc = "exited" /\ ~check_mode /\ run < MaxRuns
    /\ Len(output) = 1 /\ output[1] = ResultJson(list)
    /\ pc' = "start"
    /\ opened' = FALSE
    /\ output' = <<>>
    /\ list' = [success |-> <<>>, error |-> <<>>]
    /\ cursor' = 0
    /\ run' = run + 1
    /\ UNCHANGED <<prog, check_mode, gets, posts, puts, pceLabels,
                   pceWorkloads, wlLabels, labels_details, hrefs, rowsRead,
                   params, csvFile>>

-----------------------------------------------------------------------------
NoParams == [l_name |-> None, l_type |-> None, l_path |-> None]

NoCsv == [header |-> <<>>, lines |-> <<>>]

InitAssign ==
    /\ prog = "assign"
    /\ pceWorkloads \in Inventories
    /\ wlLabels = [i \in 1..Len(pceWorkloads) |-> <<>>]
    /\ labels_details = [t \in TypeSet |-> EmptyDict]
    /\ hrefs = [t \in TypeSet |-> Unbound]
    /\ rowsRead = <<>>
    /\ list = [assigned |-> <<>>, not_assigned |-> <<>>]
    /\ params = NoParams
    /\ csvFile = NoCsv
    /\ cursor = 0
    /\ run = 1

InitCreate ==
    /\ prog = "create"
    /\ params \in ParamSets
    /\ csvFile \in (IF TruthyParam(params.l_path) THEN LabelCsvFiles ELSE {NoCsv})
    /\ list = [success |-> <<>>, error |-> <<>>]
    /\ cursor = 0
    /\ run = 1
    /\ pceWorkloads = <<>>
    /\ wlLabels = <<>>
    /\ labels_details = [t \in TypeSet |-> EmptyDict]
    /\ hrefs = [t \in TypeSet |-> Unbound]
    /\ rowsRead = <<>>

Init ==
    /\ check_mode \in BOOLEAN
    /\ pc = "start"
    /\ opened = FALSE
    /\ gets = <<>>
    /\ posts = <<>>
    /\ puts = <<>>
    /\ output = <<>>
    /\ pceLabels \in InitialLabels
    /\ (InitAssign \/ InitCreate)

Next ==
    \/ AssignCheckMode
    \/ AssignDisplayLabels
    \/ AssignOpenCsv
    \/ AssignRow
    \/ AssignExit
    \/ CreateCheckMode
    \/ CreateOpenCsv
    \/ CreateRow
    \/ CreateExit
    \/ CreateSingle
    \/ CreateMismatch
    \/ CreateRerun

Spec == Init /\ [][Next]_vars

-----------------------------------------------------------------------------
(* Vocabulary of the properties *)

\* the allow-list of label types
ValidTypes == {"env", "app", "loc", "role"}

\* row r of the workload CSV ran to the end of its loop iteration
RowCompleted(r) ==
    r < Len(rowsRead) \/ (r = Len(rowsRead) /\ pc \in {"rows", "exited"})

\* the matching rule: public_ip or some interface address equals the IP
Matches(w, ip) ==
    \/ pceWorkloads[w].public_ip = ip
    \/ \E k \in 1..Len(pceWorkloads[w].interfaces) :
            pceWorkloads[w].interfaces[k].address = ip

NoWorkloadMatches(ip) == \A w \in 1..Len(pceWorkloads) : ~Matches(w, ip)

PutsOf(r, w) == {i \in 1..Len(puts) : puts[i].row = r /\ puts[i].wl = w}

\* the references a row asks for: one per non-empty field, in column order
RECURSIVE RowReferences(_, _)
RowReferences(rows, i) ==
    IF i > Len(LabelTypes) THEN <<>>
    ELSE LET t == LabelTypes[i]
         IN  (IF rows[t] # None /\ rows[t] # "" /\ rows[t] \in DOMAIN labels_details[t]
              THEN <<[href |-> labels_details[t][rows[t]]]>>
              ELSE <<>>) \o RowReferences(rows, i + 1)

\* the creation module runs (not in check mode) on a CSV
CsvMode ==
    prog = "create" /\ ~check_mode /\ params.l_path # None /\ params.l_path # ""

\* the creation module runs (not in check mode) on one name and type
SingleMode ==
    /\ prog = "create" /\ ~check_mode
    /\ params.l_path = None
    /\ params.l_type \notin {None, ""}
    /\ params.l_name \notin {None, ""}

\* line i of the label CSV, as a dict
LabelRow(i) == DictReader(csvFile.header, csvFile.lines[i])

HasColumns == {"type", "name"} \subseteq Range(csvFile.header)

\* error and success entries the first n lines of the label CSV call for
RECURSIVE ExpectedErrors(_)
ExpectedErrors(n) ==
    IF n = 0 THEN <<>>
    ELSE ExpectedErrors(n - 1) \o
         (IF LabelRow(n)["type"] \in ValidTypes THEN <<>>
          ELSE <<"Invalid type:" \o LabelRow(n)["type"]
                    \o ". Type should be either env,app,loc,role">>)

RECURSIVE ExpectedSuccess(_)
ExpectedSuccess(n) ==
    IF n = 0 THEN <<>>
    ELSE ExpectedSuccess(n - 1) \o
         (IF LabelRow(n)["type"] \in ValidTypes
          THEN <<LabelRow(n)["type"] \o " : " \o LabelRow(n)["name"]>>
          ELSE <<>>)

\* line i cannot be processed: a column is missing from the header, the
\* type field is absent, or the name of a label to create is absent
Malformed(i) ==
    \/ ~HasColumns
    \/ LabelRow(i)["type"] = None
    \/ (LabelRow(i)["type"] \in ValidTypes /\ LabelRow(i)["name"] = None)

-----------------------------------------------------------------------------
(* Properties *)

\* C1: in one run of the assignment module at most one create (POST) request
\* is issued per (type, value) pair; a pair the platform already holds is
\* never created, and every non-missing field of a completed row is in the
\* in-memory catalog afterwards.
C1_AtMostOneCreatePerPair ==
    prog = "assign" =>
        /\ \A i, j \in 1..Len(posts) :
              (posts[i].key = posts[j].key /\ posts[i].value = posts[j].value)
                  => i = j
        /\ \A i \in 1..Len(posts) : ~posts[i].existed
        /\ \A r \in 1..Len(rowsRead) : \A t \in TypeSet :
              (RowCompleted(r) /\ rowsRead[r][t] # None)
                  => rowsRead[r][t] \in DOMAIN labels_details[t]

C1_Witness ==
    /\ prog = "assign" /\ pc = "rows" /\ Len(rowsRead) = 2
    /\ rowsRead[1]["role"] = "web" /\ rowsRead[2]["role"] = "web"
    /\ \E i \in 1..Len(posts) :
          posts[i].key = "role" /\ posts[i].value = "web" /\ posts[i].row = 1

\* C2: the labels list of every update (PUT) payload holds exactly one
\* reference per field of its row that is non-empty, in the order role, app,
\* env, loc, and none for an empty or missing field.
C2_PayloadMatchesRow ==
    prog = "assign" =>
        \A i \in 1..Len(puts) :
            puts[i].labels = RowReferences(rowsRead[puts[i].row], 1)

\* C3: a row whose IP matches no workload issues no update (PUT) request,
\* and once the row is done its IP has been appended to not_assigned (and
\* not to assigned).
C3_UnmatchedRowNotAssigned ==
    [][(/\ prog = "assign" /\ pc = "rows"
        /\ Len(rowsRead') = Len(rowsRead) + 1
        /\ NoWorkloadMatches(rowsRead'[Len(rowsRead')]["ip"]))
       => /\ puts' = puts
          /\ pc' = "rows" =>
                /\ list'.not_assigned =
                      Append(list.not_assigned, rowsRead'[Len(rowsRead')]["ip"])
                /\ list'.assigned = list.assigned]_vars

C3_Witness ==
    /\ prog = "assign" /\ pc = "rows" /\ Len(rowsRead) = 2
    /\ Len(pceWorkloads) = 2
    /\ rowsRead[1]["ip"] = IpA /\ rowsRead[2]["ip"] = IpB
    /\ NoWorkloadMatches(IpB) /\ ~NoWorkloadMatches(IpA)
    /\ list.not_assigned = <<IpB>>
    /\ puts # <<>>

\* C4: for every completed row and every fetched workload, an update (PUT)
\* is issued to the workload and the IP recorded as assigned if and only if
\* the workload's public_ip or one of its interface addresses equals the
\* row's IP.
C4_UpdateIffMatch ==
    prog = "assign" =>
        \A r \in 1..Len(rowsRead) : RowCompleted(r) =>
            \A w \in 1..Len(pceWorkloads) :
                /\ (PutsOf(r, w) # {}) <=> Matches(w, rowsRead[r]["ip"])
                /\ Matches(w, rowsRead[r]["ip"])
                      => rowsRead[r]["ip"] \in Range(list.assigned)

\* C5: in CSV mode a line with an invalid type issues no create (POST), adds
\* its message to the error list and does not end the run; the result that
\* is emitted holds one error entry per invalid line and one success entry
\* per valid line, in CSV order.
C5_InvalidTypeRecorded ==
    (CsvMode /\ HasColumns) =>
        /\ \A i \in 1..Len(posts) :
              LabelRow(posts[i].row)["type"] \in ValidTypes
        /\ (pc = "rows" /\ \A i \in 1..cursor : ~Malformed(i))
              => /\ list.error = ExpectedErrors(cursor)
                 /\ list.success = ExpectedSuccess(cursor)
        /\ (pc = "failed" /\ cursor > 0)
              => (LabelRow(cursor)["type"] \in ValidTypes \/ LabelRow(cursor)["type"] = None)
        /\ pc = "exited"
              => output = <<[kind |-> "exit",
                             body |-> [error |-> ExpectedErrors(Len(csvFile.lines)),
                                       success |-> ExpectedSuccess(Len(csvFile.lines))]]>>

C5_Witness ==
    /\ CsvMode /\ pc = "exited" /\ run = 1
    /\ csvFile.header = <<"type", "name">>
    /\ csvFile.lines = <<(<<"ap", "x">>), (<<"app", "x">>)>>
    /\ output[1].body.error = <<"Invalid type:ap. Type should be either env,app,loc,role">>
    /\ output[1].body.success = <<"app : x">>
    /\ Len(posts) = 1

\* C6: in single-record mode with an invalid type the run ends reporting
\* failure with the message "Invalid type value.", no create (POST) request
\* is issued, and no error/success list is emitted.
C6_SingleInvalidType ==
    (SingleMode /\ params.l_type \notin ValidTypes) =>
        /\ posts = <<>>
        /\ pc \in {"start", "exited"}
        /\ pc = "exited" =>
              /\ Len(output) = 1
              /\ DOMAIN output[1].body = {"msg", "failed"}
              /\ output[1].body.msg = "Invalid type value."
              /\ output[1].body.failed = params.l_type

C6_Witness ==
    /\ SingleMode /\ pc = "exited"
    /\ params.l_type = "ap" /\ params.l_name = "test_application"

\* C7: running the creation module a second time with the same CSV issues
\* no create (POST) request for a (type, name) pair the platform already
\* holds, so the platform's labels stay as the first run left them.
C7_SecondRunCreatesNothing ==
    CsvMode =>
        \A i \in 1..Len(posts) : posts[i].run >= 2 => ~posts[i].existed

\* C8: an exception in the creation flow ends the run with exactly one
\* failure report, "Error!!", without the success/error lists, whatever was
\* created before; the lists are emitted only once, after every line was
\* processed without exception; nothing is emitted while the run goes on.
C8_SingleOpaqueFailure ==
    prog = "create" =>
        /\ Len(output) <= 1
        /\ pc \in {"start", "rows"} => output = <<>>
        /\ (CsvMode /\ \E i \in 1..cursor : Malformed(i))
              => /\ pc = "failed"
                 /\ DOMAIN output[1].body = {"msg", "failed"}
                 /\ output[1].body.msg = "Error!!"
                 /\ output[1].kind = "fail"
        /\ pc = "failed"
              => /\ Len(output) = 1
                 /\ output[1].kind = "fail"
                 /\ output[1].body.msg = "Error!!"
                 /\ {"error", "success"} \cap DOMAIN output[1].body = {}
        /\ (CsvMode /\ output # <<>> /\ "success" \in DOMAIN output[1].body)
              => /\ pc = "exited"
                 /\ cursor = Len(csvFile.lines)
                 /\ \A i \in 1..cursor : ~Malformed(i)

C8_Witness ==
    /\ CsvMode /\ pc = "failed" /\ cursor = 2 /\ run = 1
    /\ Len(posts) = 2
    /\ LabelRow(1)["name"] = "x" /\ LabelRow(2)["name"] = None
    /\ list.success = <<"app : x">>
    /\ output[1].body.msg = "Error!!"

\* C9: while one row is processed, a workload receives at most one update
\* (PUT) request, and the row's IP is added to the assigned list at most
\* once per matching workload.
C9_OneUpdatePerWorkload ==
    prog = "assign" =>
        /\ \A r \in 1..Len(rowsRead) : \A w \in 1..Len(pceWorkloads) :
              Cardinality(PutsOf(r, w)) <= 1
        /\ Len(list.assigned) <=
              Cardinality({rw \in (1..Len(rowsRead)) \X (1..Len(pceWorkloads)) :
                              Matches(rw[2], rowsRead[rw[1]]["ip"])})

\* C10: in check mode either module exits with an empty result before it
\* opens its CSV file or sends any request; the platform's labels and the
\* workloads' label lists stay as they were.
C10_CheckModeNoEffect ==
    check_mode =>
        /\ gets = <<>> /\ posts = <<>> /\ puts = <<>>
        /\ ~opened
        /\ pceLabels \in InitialLabels
        /\ \A w \in 1..Len(wlLabels) : wlLabels[w] = <<>>
        /\ pc \in {"start", "exited"}
        /\ pc = "exited" => (Len(output) = 1 /\ DOMAIN output[1].body = {})

C10_Witness ==
    /\ check_mode /\ pc = "exited" /\ prog = "create"
    /\ params.l_path = "labels.csv" /\ Len(csvFile.lines) = 2
    /\ output # <<>>

====
